---- MODULE Spec2Model ----
(***************************************************************************)
(* Cycle-count session engine of retailcycle-smart-inventory.              *)
(*                                                                         *)
(* State: the App component's React state (currentTask, view,              *)
(* showConfirmModal), the localStorage record, the `task` snapshot that   *)
(* the handlers of the last render closed over, and the local state of    *)
(* the Scanner and Reconciliation components while they are shown.        *)
(*                                                                         *)
(* Two layers.  Init / Next / Spec is the App as written: its render       *)
(* returns the tree only under view DASHBOARD and null under every other   *)
(* view, so none of the step components is ever mounted by it.  The        *)
(* ...Hosted, ...Stale, ...Store and ...Calc specifications                *)
(* exercise the step components and the handlers App defines for them on   *)
(* a host that shows the component of the current view with the props of   *)
(* App.tsx lines 461-509; no state of theirs past the start is a state of  *)
(* the App as written.                                                     *)
(*                                                                         *)
(* A JavaScript Set is an object of its own kind: a record holding its    *)
(* entries, duplicate-free, in insertion order.  An array is a sequence.  *)
(* An optional object field (manualCount, reason, lastAction) is a record *)
(* field that is present or absent.  null is the record Null.             *)
(***************************************************************************)
EXTENDS Integers, Sequences, FiniteSets, TLC

VARIABLES
    storage,           \* localStorage[TASK_STORAGE_KEY]
    storeFails,        \* localStorage.setItem currently throws
    errors,            \* console.error reports of saveTaskToStorage on this page
    currentTask,       \* App state: InventoryTask | null
    view,              \* App state: AppView
    showConfirmModal,  \* App state
    task,              \* the currentTask the handlers of the last render captured
    scanResult,        \* Scanner state
    zeroConfirmSku,    \* Scanner state
    discrepancies,     \* Reconciliation state
    simulating,        \* Reconciliation state
    timer,             \* pending setTimeout callbacks of handleDynamicCheck, oldest first
    instance,          \* the Reconciliation instance on screen, 0 when there is none
    notes,             \* identifiers whose OTHER note <input> holds text (DOM state)
    lastEvent,         \* history: the last operator event and what it saw
    overlays           \* FALSE: the App as written, only what its render
                       \* returns is on screen; TRUE: a host shows the step
                       \* component of the current view with App's handlers

vars == <<storage, storeFails, errors, currentTask, view, showConfirmModal, task,
          scanResult, zeroConfirmSku, discrepancies, simulating, timer,
          instance, notes, lastEvent, overlays>>

(***************************************************************************)
(* Bounds of the model.                                                    *)
(***************************************************************************)
\* getDailyTask takes 4 phones and 6 accessories; the model takes fewer.
TaskPhones == 1
TaskAccessories == 1
\* Largest quantity the + button counts up to.
MaxCount == 2
\* Most timer callbacks still pending when the operator leaves the
\* reconciliation step: in the engine around the auto-reconciliation pass,
\* and in the other engines, where the operator waits for the pass to end.
MaxOrphans == 1
HostedOrphans == 0
\* Most failed store writes reported on one page.
MaxErrors == 2

(***************************************************************************)
(* Generic helpers for JavaScript values.                                  *)
(***************************************************************************)
Null == [null |-> TRUE]

\* useState<string | null>(null) of zeroConfirmSku: null and "" are both falsy
NoSku == ""

Range(s) == {s[i] : i \in 1..Len(s)}

\* A Set object: its entries in insertion order, no entry twice.  It is not
\* an array: it has no indices and no own enumerable properties.
\* Set.prototype.has
Has(set, x) == \E i \in 1..Len(set.entries) : set.entries[i] = x

\* Set.prototype.add: appends unless present
SetAdd(set, x) ==
    IF Has(set, x) THEN set ELSE [entries |-> Append(set.entries, x)]

\* Set.prototype.size
Size(set) == Len(set.entries)

\* Set.prototype.delete: removes, keeping the order of the others
SetDelete(set, x) == [entries |-> SelectSeq(set.entries, LAMBDA y : y # x)]

\* Array.prototype.filter
Filter(arr, P(_)) == SelectSeq(arr, P)

\* Array.prototype.find: <<>> for undefined, <<element>> otherwise
Find(arr, P(_)) ==
    LET hits == SelectSeq(arr, P) IN
    IF hits = <<>> THEN <<>> ELSE <<Head(hits)>>

\* new Set(iterable): first occurrences, in order
RECURSIVE NewSet(_)
NewSet(arr) ==
    IF arr = <<>> THEN [entries |-> <<>>]
    ELSE LET front == NewSet(SubSeq(arr, 1, Len(arr) - 1)) IN
         SetAdd(front, arr[Len(arr)])

\* Array.from(set): the entries in insertion order
ArrayFrom(set) == set.entries

\* { ...obj, ...patch }
Spread(obj, patch) == patch @@ obj

IsTruthyReason(d) == "reason" \in DOMAIN d /\ d.reason # ""

(***************************************************************************)
(* parseInt(val) with no radix, on strings.                                *)
(***************************************************************************)
DigitValue(c) ==
    CASE c = "0" -> 0 [] c = "1" -> 1 [] c = "2" -> 2 [] c = "3" -> 3
      [] c = "4" -> 4 [] c = "5" -> 5 [] c = "6" -> 6 [] c = "7" -> 7
      [] c = "8" -> 8 [] c = "9" -> 9 [] OTHER -> -1

\* StrWhiteSpaceChar as far as a module string can hold it: tab, line feed,
\* vertical tab, form feed, carriage return, space, and U+00A0, U+1680,
\* U+FEFF where the module is read as UTF-8 (each is then one character;
\* read byte by byte they are indistinguishable from other characters and
\* are left out).  U+2000..U+200A, U+2028, U+2029, U+202F, U+205F and
\* U+3000 cannot be written in a string of this language and are not in
\* the model's alphabet.
WhiteSpace ==
    {"\t", "\n", "", "\f", "\r", " "}
        \cup {w \in {" ", " ", "﻿"} : Len(w) = 1}

\* the white space s starts with, as a set of at most one string
LeadingWhiteSpace(s) ==
    {w \in WhiteSpace : Len(s) >= Len(w) /\ SubSeq(s, 1, Len(w)) = w}

RECURSIVE SkipSpaces(_)
SkipSpaces(s) ==
    IF LeadingWhiteSpace(s) # {}
    THEN LET w == CHOOSE w \in LeadingWhiteSpace(s) : TRUE
         IN  SkipSpaces(SubSeq(s, Len(w) + 1, Len(s)))
    ELSE s

\* the leading decimal digits of s: [seen |-> some digit read, num |-> value]
RECURSIVE ReadDigits(_, _, _)
ReadDigits(s, seen, acc) ==
    IF Len(s) > 0 /\ DigitValue(Head(s)) >= 0
    THEN ReadDigits(Tail(s), TRUE, 10 * acc + DigitValue(Head(s)))
    ELSE [seen |-> seen, num |-> acc]

HexValue(c) ==
    CASE c \in {"a", "A"} -> 10 [] c \in {"b", "B"} -> 11 [] c \in {"c", "C"} -> 12
      [] c \in {"d", "D"} -> 13 [] c \in {"e", "E"} -> 14 [] c \in {"f", "F"} -> 15
      [] OTHER -> DigitValue(c)

RECURSIVE ReadHexDigits(_, _, _)
ReadHexDigits(s, seen, acc) ==
    IF Len(s) > 0 /\ HexValue(Head(s)) >= 0
    THEN ReadHexDigits(Tail(s), TRUE, 16 * acc + HexValue(Head(s)))
    ELSE [seen |-> seen, num |-> acc]

\* [nan |-> TRUE] for NaN, [nan |-> FALSE, num |-> n] otherwise
ParseInt(val) ==
    LET s    == SkipSpaces(val)
        neg  == Len(s) > 0 /\ Head(s) = "-"
        body == IF Len(s) > 0 /\ Head(s) \in {"-", "+"} THEN Tail(s) ELSE s
        hex  == Len(body) >= 2 /\ SubSeq(body, 1, 2) \in {"0x", "0X"}
        r    == IF hex THEN ReadHexDigits(SubSeq(body, 3, Len(body)), FALSE, 0)
                ELSE ReadDigits(body, FALSE, 0)
    IN  IF r.seen
        THEN [nan |-> FALSE, num |-> IF neg THEN 0 - r.num ELSE r.num]
        ELSE [nan |-> TRUE]

(***************************************************************************)
(* services/inventoryService.ts                                            *)
(***************************************************************************)
CatalogSize == 30
PhoneCount == 10
AccessoryStart == 10

IsPhone(i) == i < PhoneCount

\* MOCK_PRODUCTS[i]; type, lastCounted, priority and imageUrl are never read
\* by the session engine and are left out.
Product(i) ==
    [ sku         |-> ToString(1000 + i),
      name        |-> IF IsPhone(i)
                      THEN "Xiaomi 15 Pro " \o ToString(128 + i * 64) \o "GB Black"
                      ELSE "Xiaomi Earbuds Basic " \o ToString(i),
      price       |-> IF IsPhone(i) THEN 3000 + i * 100 ELSE 150 + i * 10,
      imei        |-> "86542105" \o ToString(100000 + i),
      countMethod |-> IF IsPhone(i) THEN "SCAN" ELSE "QUANTITY" ]

MOCK_PRODUCTS == [i \in 1..CatalogSize |-> Product(i - 1)]

\* MOCK_PRODUCTS.slice(from, to)
Slice(arr, from, to) == SubSeq(arr, from + 1, to)

\* the calendar day of the run, as new Date().toISOString().split('T')[0]
today == "2025-12-15"

RECURSIVE RemoveDashes(_)
RemoveDashes(s) ==
    IF Len(s) = 0 THEN s
    ELSE IF Head(s) = "-" THEN RemoveDashes(Tail(s))
    ELSE Head(s) \o RemoveDashes(Tail(s))

getDailyTask(dateStr) ==
    [ id            |-> "PDD" \o RemoveDashes(dateStr) \o "0001",
      date          |-> dateStr,
      items         |-> Slice(MOCK_PRODUCTS, 0, TaskPhones)
                        \o Slice(MOCK_PRODUCTS, AccessoryStart,
                                 AccessoryStart + TaskAccessories),
      status        |-> "PENDING",
      scannedImeis  |-> NewSet(<<>>),
      discrepancies |-> <<>> ]

\* a catalog lookup that never finds anything
getProductByImeiMisses(imei) == <<>>

\* <<>> for undefined, <<product>> otherwise
getProductByImei(imei) == Find(MOCK_PRODUCTS, LAMBDA p : p.imei = imei)

\* the DiscrepancyReason members the sources name
DiscrepancyReason == {"SALES_FLOW", "TRANSFER_OUT", "RETURN_WAREHOUSE", "OTHER"}

\* <<>> for null, <<reason>> otherwise
checkDynamicStatus(imei) ==
    LET lastDigit == ParseInt(SubSeq(imei, Len(imei), Len(imei))) IN
    IF lastDigit.nan THEN <<>>
    ELSE IF lastDigit.num = 0 THEN <<"SALES_FLOW">>
    ELSE IF lastDigit.num = 1 THEN <<"TRANSFER_OUT">>
    ELSE IF lastDigit.num = 2 THEN <<"RETURN_WAREHOUSE">>
    ELSE <<>>

(***************************************************************************)
(* Persistence helpers of the App.                                         *)
(***************************************************************************)
NoRecord == [kind |-> "none"]

\* The stored text is a JSON document: strings, numbers, booleans, arrays
\* and objects.  A document has no Set and no undefined.
JsonString(s) == [json |-> "string", text |-> s]
JsonNumber(n) == [json |-> "number", num |-> n]
JsonBoolean(b) == [json |-> "boolean", bool |-> b]
JsonArray(elems) == [json |-> "array", elems |-> elems]
JsonObject(members) == [json |-> "object", members |-> members]

\* what a Set serialises to: an object with no enumerable own property, {}
NoMembers == [k \in {} |-> Null]

\* the JavaScript type of the value held under a key of the session
\* (InventoryTask, Product, Discrepancy and lastAction); the session itself
\* is serialised under the key "" and the elements of items and
\* discrepancies under their index
TypeOf(key) ==
    IF key \in {"id", "date", "status", "sku", "name", "imei", "countMethod",
                "type", "reason", "code"} THEN "string"
    ELSE IF key \in {"price", "manualCount"} THEN "number"
    ELSE IF key = "autoResolved" THEN "boolean"
    ELSE IF key \in {"items", "discrepancies"} THEN "array"
    ELSE IF key = "scannedImeis" THEN "Set"
    ELSE "object"

\* the replacer of saveTaskToStorage: Array.from(value) for the Set under
\* scannedImeis, whose elements are strings; every other value as it is
RECURSIVE SerializeValue(_, _, _)
SerializeValue(key, value, replacer) ==
    LET type == TypeOf(key) IN
    IF type = "Set"
    THEN IF replacer
         THEN LET array == ArrayFrom(value) IN
              JsonArray([i \in 1..Len(array) |-> JsonString(array[i])])
         ELSE JsonObject(NoMembers)
    ELSE IF type = "string" THEN JsonString(value)
    ELSE IF type = "number" THEN JsonNumber(value)
    ELSE IF type = "boolean" THEN JsonBoolean(value)
    ELSE IF type = "array"
    THEN JsonArray([i \in 1..Len(value) |->
                       SerializeValue("[]", value[i], replacer)])
    ELSE JsonObject([k \in DOMAIN value |->
                        SerializeValue(k, value[k], replacer)])

\* JSON.parse(text, reviver) on a document: the value of every node, inner
\* nodes first, each handed to the reviver with its key; the reviver of
\* loadTaskFromStorage makes a Set of the array under scannedImeis
RECURSIVE Revive(_, _, _)
Revive(key, node, reviver) ==
    LET value ==
            IF node.json = "string" THEN node.text
            ELSE IF node.json = "number" THEN node.num
            ELSE IF node.json = "boolean" THEN node.bool
            ELSE IF node.json = "array"
            THEN [i \in 1..Len(node.elems) |->
                     Revive("[]", node.elems[i], reviver)]
            ELSE [k \in DOMAIN node.members |->
                     Revive(k, node.members[k], reviver)]
    IN  IF reviver /\ key = "scannedImeis" /\ node.json = "array"
        THEN NewSet(value)
        ELSE value

\* JSON.stringify without the replacer: a Set is written as {}
StringifyDefault(t) ==
    [kind |-> "json", value |-> SerializeValue("", t, FALSE)]

\* JSON.stringify(task, replacer): the Set becomes an array
Stringify(t) ==
    [kind |-> "json", value |-> SerializeValue("", t, TRUE)]

\* JSON.parse(stored, reviver): the array becomes a Set again
Parse(stored) == Revive("", stored.value, TRUE)

\* a save that never reaches setItem
saveTaskToStorageSkips(t, store, fails) ==
    IF t = Null THEN NoRecord ELSE store

\* the record in the store after saveTaskToStorage(t); setItem may throw,
\* the exception is caught and logged
saveTaskToStorage(t, store, fails) ==
    IF t = Null THEN NoRecord
    ELSE IF fails THEN store
    ELSE Stringify(t)

\* a load whose catch block answers an empty object instead of null
loadTaskFromStorageEmptyObject(store) ==
    IF store.kind = "none" THEN Null
    ELSE IF store.kind = "json" THEN Parse(store)
    ELSE NoMembers

\* loadTaskFromStorage: null when nothing is stored or JSON.parse throws
loadTaskFromStorage(store) ==
    IF store.kind = "none" THEN Null
    ELSE IF store.kind = "json" THEN Parse(store)
    ELSE Null

\* a record JSON.parse throws on
Corrupt == [kind |-> "corrupt"]

\* a save whose exception leaves the function
SaveThrowsOnFailure(t, fails) == t # Null /\ fails

\* saveTaskToStorage has the write in try / catch: no exception leaves it
SaveThrows(t, fails) == FALSE

\* console.error("Failed to save task", e) in the catch block
Reported(n, t, fails) == IF t # Null /\ fails THEN n + 1 ELSE n

(***************************************************************************)
(* App handlers as functions of the task they captured.                    *)
(***************************************************************************)
HasItem(t, imei) == \E i \in 1..Len(t.items) : t.items[i].imei = imei

\* handleScan that forgets newSet.add(imei)
handleScanNoAdd(t, imei) ==
    LET item     == Find(t.items, LAMBDA i : i.imei = imei)
        itemName == IF item # <<>> THEN item[1].name ELSE "Unknown/Extra Item"
    IN  Spread(t, [lastAction |-> [name |-> itemName, code |-> imei]])

\* handleScan that also counts the scanned item
handleScanCounts(t, imei) ==
    Spread(t, [scannedImeis |-> SetAdd(t.scannedImeis, imei),
               items |-> [k \in 1..Len(t.items) |->
                             IF t.items[k].imei = imei
                             THEN Spread(t.items[k], [manualCount |-> 1])
                             ELSE t.items[k]]])

\* handleScan: the task passed to setCurrentTask (time of day left out of
\* lastAction)
handleScan(t, imei) ==
    LET newSet   == SetAdd(t.scannedImeis, imei)
        item     == Find(t.items, LAMBDA i : i.imei = imei)
        itemName == IF item # <<>> THEN item[1].name ELSE "Unknown/Extra Item"
    IN  Spread(t, [scannedImeis |-> newSet,
                   lastAction   |-> [name |-> itemName, code |-> imei]])

\* handleQuantityUpdate that never removes from the scanned set
handleQuantityUpdateKeeps(t, sku, count) ==
    LET updatedItems ==
            [i \in 1..Len(t.items) |->
                IF t.items[i].sku = sku
                THEN Spread(t.items[i], [manualCount |-> count])
                ELSE t.items[i]]
        item   == Find(t.items, LAMBDA i : i.sku = sku)
        newSet == IF item # <<>> /\ count > 0
                  THEN SetAdd(t.scannedImeis, item[1].imei)
                  ELSE t.scannedImeis
    IN  Spread(t, [items |-> updatedItems, scannedImeis |-> newSet])

\* handleQuantityUpdate that writes the count on every item
handleQuantityUpdateAll(t, sku, count) ==
    LET updatedItems ==
            [i \in 1..Len(t.items) |-> Spread(t.items[i], [manualCount |-> count])]
        item   == Find(t.items, LAMBDA i : i.sku = sku)
        newSet == IF item = <<>> THEN t.scannedImeis
                  ELSE IF count > 0 THEN SetAdd(t.scannedImeis, item[1].imei)
                  ELSE SetDelete(t.scannedImeis, item[1].imei)
    IN  Spread(t, [items |-> updatedItems, scannedImeis |-> newSet])

\* handleQuantityUpdate: the task passed to setCurrentTask
handleQuantityUpdate(t, sku, count) ==
    LET updatedItems ==
            [i \in 1..Len(t.items) |->
                IF t.items[i].sku = sku
                THEN Spread(t.items[i], [manualCount |-> count])
                ELSE t.items[i]]
        item   == Find(t.items, LAMBDA i : i.sku = sku)
        newSet == IF item = <<>> THEN t.scannedImeis
                  ELSE IF count > 0 THEN SetAdd(t.scannedImeis, item[1].imei)
                  ELSE SetDelete(t.scannedImeis, item[1].imei)
        patch  == [items |-> updatedItems, scannedImeis |-> newSet]
    IN  IF item # <<>> /\ count > 0
        THEN Spread(t, Spread(patch,
                 [lastAction |-> [name |-> item[1].name, code |-> item[1].imei]]))
        ELSE Spread(t, patch)

\* handleReconciliationFinish: the task passed to setCurrentTask
handleReconciliationFinish(t, diffs) == Spread(t, [discrepancies |-> diffs])

\* handleSignatureFinish: finalTask
\* a signature step that leaves the status as it is
handleSignatureFinishKeepsStatus(t) == t

\* a signature that reopens the session
handleSignatureFinishReopens(t) == Spread(t, [status |-> "PENDING"])

\* handleSignatureFinish: finalTask
handleSignatureFinish(t) == Spread(t, [status |-> "COMPLETED"])

\* getProgressStats
\* Math.abs
Abs(n) == IF n < 0 THEN -n ELSE n

\* arr.reduce((a, b) => a + b.price, 0)
RECURSIVE SumPrice(_)
SumPrice(arr) ==
    IF arr = <<>> THEN 0 ELSE arr[1].price + SumPrice(Tail(arr))

\* arr.reduce((acc, d) => acc + Math.abs(d.price), 0)
RECURSIVE SumAbsPrice(_)
SumAbsPrice(arr) ==
    IF arr = <<>> THEN 0 ELSE Abs(arr[1].price) + SumAbsPrice(Tail(arr))

\* the amounts of the dashboard's summary card
completedDiffAmount(t) ==
    IF t = Null THEN 0 ELSE SumAbsPrice(t.discrepancies)

completedShortageAmount(t) ==
    IF t = Null THEN 0
    ELSE SumPrice(Filter(t.discrepancies, LAMBDA d : d.type = "SHORTAGE"))

completedOverageAmount(t) ==
    IF t = Null THEN 0
    ELSE SumPrice(Filter(t.discrepancies, LAMBDA d : d.type = "OVERAGE"))

\* progress that counts every observed identifier
getProgressStatsObserved(t) ==
    IF t = Null THEN [current |-> 0, total |-> 0]
    ELSE [current |-> Size(t.scannedImeis), total |-> Len(t.items)]

getProgressStats(t) ==
    IF t = Null THEN [current |-> 0, total |-> 0]
    ELSE [current |-> Len(Filter(t.items, LAMBDA i : Has(t.scannedImeis, i.imei))),
          total   |-> Len(t.items)]

(***************************************************************************)
(* Reconciliation: the initial discrepancy list and the pure parts of its  *)
(* handlers.                                                               *)
(***************************************************************************)
Shortages(t) ==
    LET missing == Filter(t.items, LAMBDA i : ~Has(t.scannedImeis, i.imei)) IN
    [k \in 1..Len(missing) |->
        [ imei |-> missing[k].imei, sku |-> missing[k].sku,
          name |-> missing[k].name, type |-> "SHORTAGE",
          price |-> missing[k].price, autoResolved |-> FALSE ]]

\* Overages that does not look the identifier up in the expectation list
OveragesUnfiltered(t) ==
    LET extra == ArrayFrom(t.scannedImeis) IN
    [k \in 1..Len(extra) |->
        [ imei |-> extra[k], sku |-> "UNKNOWN", name |-> "Unlisted Item",
          type |-> "OVERAGE", price |-> 0, autoResolved |-> FALSE ]]

Overages(t) ==
    LET extra == Filter(ArrayFrom(t.scannedImeis), LAMBDA c : ~HasItem(t, c)) IN
    [k \in 1..Len(extra) |->
        LET globalProduct == getProductByImei(extra[k]) IN
        [ imei |-> extra[k],
          sku  |-> IF globalProduct # <<>> THEN globalProduct[1].sku ELSE "UNKNOWN",
          name |-> IF globalProduct # <<>> THEN globalProduct[1].name
                   ELSE "Unlisted Item",
          type |-> "OVERAGE",
          price |-> IF globalProduct # <<>> THEN globalProduct[1].price ELSE 0,
          autoResolved |-> FALSE ]]

\* a calculator that pushes the overages first
ComputeDiscrepanciesOveragesFirst(t) == Overages(t) \o Shortages(t)

\* the calculator: shortages pushed first, then overages
ComputeDiscrepancies(t) == Shortages(t) \o Overages(t)

\* an initializer that always runs the calculator
InitialDiscrepanciesRecomputed(t) == ComputeDiscrepancies(t)

\* the useState initializer of Reconciliation
InitialDiscrepancies(t) ==
    IF Len(t.discrepancies) > 0 THEN t.discrepancies
    ELSE ComputeDiscrepancies(t)

\* the test of handleSubmit without its reason part
UnresolvedIgnoringReason(d) == ~d.autoResolved

\* a test that finds nothing unresolved
UnresolvedNever(d) == FALSE

\* !d.autoResolved && !d.reason
Unresolved(d) == ~d.autoResolved /\ ~IsTruthyReason(d)

\* a pass that also settles the entries the oracle has no answer for
DynamicCheckResultAll(list) ==
    [k \in 1..Len(list) |->
        LET d == list[k]
            detectedReason == checkDynamicStatus(d.imei)
        IN  IF Unresolved(d)
            THEN Spread(d, [autoResolved |-> TRUE,
                            reason |-> IF detectedReason # <<>>
                                       THEN detectedReason[1] ELSE "OTHER"])
            ELSE d]

\* a pass that puts an auto-resolved entry back to unresolved
DynamicCheckResultToggle(list) ==
    [k \in 1..Len(list) |->
        LET d == list[k]
            detectedReason == checkDynamicStatus(d.imei)
        IN  IF d.autoResolved
            THEN [f \in DOMAIN d \ {"reason"} |->
                     IF f = "autoResolved" THEN FALSE ELSE d[f]]
            ELSE IF Unresolved(d) /\ detectedReason # <<>>
            THEN Spread(d, [autoResolved |-> TRUE, reason |-> detectedReason[1]])
            ELSE d]

\* a pass that applies only the first answer of the oracle
DynamicCheckResultFirst(list) ==
    [k \in 1..Len(list) |->
        LET d == list[k]
            detectedReason == checkDynamicStatus(d.imei)
            earlier == \E j \in 1..(k - 1) :
                          Unresolved(list[j]) /\ checkDynamicStatus(list[j].imei) # <<>>
        IN  IF Unresolved(d) /\ detectedReason # <<>> /\ ~earlier
            THEN Spread(d, [autoResolved |-> TRUE, reason |-> detectedReason[1]])
            ELSE d]

\* the list the timer callback of handleDynamicCheck passes to setDiscrepancies
DynamicCheckResult(list) ==
    [k \in 1..Len(list) |->
        LET d == list[k]
            detectedReason == checkDynamicStatus(d.imei)
        IN  IF Unresolved(d) /\ detectedReason # <<>>
            THEN Spread(d, [autoResolved |-> TRUE, reason |-> detectedReason[1]])
            ELSE d]

\* the updater handleReasonChange passes to setDiscrepancies
handleReasonChange(prev, imei, reason) ==
    [k \in 1..Len(prev) |->
        IF prev[k].imei = imei THEN Spread(prev[k], [reason |-> reason])
        ELSE prev[k]]

\* the last unresolved entry instead of the first
lastUnresolved(list) ==
    LET open == Filter(list, Unresolved) IN
    IF open = <<>> THEN <<>> ELSE <<open[Len(open)]>>

\* handleSubmit: <<>> when nothing blocks, <<first unresolved>> otherwise
firstUnresolved(list) == Find(list, Unresolved)

pendingIssues(list) == Len(Filter(list, Unresolved))

\* the Scanner's progressPercent, (foundExpected / totalExpected) * 100, as
\* the fraction num / den
progressPercent(t) ==
    LET totalExpected == Len(t.items)
        foundExpected == Len(Filter(t.items,
                                    LAMBDA i : Has(t.scannedImeis, i.imei)))
    IN  IF totalExpected > 0
        THEN [num |-> foundExpected * 100, den |-> totalExpected]
        ELSE [num |-> 0, den |-> 1]

(***************************************************************************)
(* Scanner: the memoized list calculations.                                *)
(***************************************************************************)
scannedItems(t) == Filter(t.items, LAMBDA i : Has(t.scannedImeis, i.imei))

\* the unscanned items left in the order of the expectation list
unscannedItemsUnsorted(t) ==
    Filter(t.items, LAMBDA i : ~Has(t.scannedImeis, i.imei))

\* stable sort of the unscanned items: SCAN before the others
unscannedItems(t) ==
    LET unscanned == Filter(t.items, LAMBDA i : ~Has(t.scannedImeis, i.imei)) IN
    Filter(unscanned, LAMBDA i : i.countMethod = "SCAN")
        \o Filter(unscanned, LAMBDA i : i.countMethod # "SCAN")

overageImeis(t) == Filter(ArrayFrom(t.scannedImeis), LAMBDA c : ~HasItem(t, c))

(***************************************************************************)
(* Inputs of the operator.                                                 *)
(***************************************************************************)
\* the fallback code of handleSimulatedCameraScan
FallbackCode == "86542105100016"

\* a code the catalog does not know
UnknownCode == "12345"

\* codes typed into the manual input: one that is too short, and the
\* identifier of the first expected item
ManualCodes == {"1234", Product(0).imei}

\* values of the quantity <input>
QuantityInputs == {"", "0", "2", "\t2", "-1", "1x", "x"}

\* options of the reason <select> the operator picks: the placeholder and OTHER
ReasonOptions == {"", "OTHER"}

(***************************************************************************)
(* The setTimeout callbacks of handleDynamicCheck.  A callback belongs to  *)
(* the Reconciliation instance whose render created it: it closes over    *)
(* that render's list and over that instance's setDiscrepancies and        *)
(* setSimulating.  `left` records that the operator has since left the     *)
(* step the pass was started from.  All callbacks have the same delay, so  *)
(* they run in the order they were scheduled.                              *)
(***************************************************************************)
Callback(inst, list) == [inst |-> inst, list |-> list, left |-> FALSE]

\* the pending callbacks of the instance on screen
OwnCallbacks(q, inst) == SelectSeq(q, LAMBDA cb : cb.inst = inst)

\* the pending callbacks of steps the operator has left
LeftCallbacks(q) == SelectSeq(q, LAMBDA cb : cb.left)

\* the lists the callbacks captured
Captured(q) == [k \in 1..Len(q) |-> q[k].list]

\* the operator leaves the step: no callback is cleared (the component has
\* no clearTimeout and no effect cleanup)
StepLeft(q) == [k \in 1..Len(q) |-> [q[k] EXCEPT !.left = TRUE]]

\* the identity of a newly mounted instance: one no pending callback holds
NewInstance(q) ==
    CHOOSE n \in 1..(Len(q) + 1) :
        /\ \A k \in 1..Len(q) : q[k].inst # n
        /\ \A m \in 1..(n - 1) : \E k \in 1..Len(q) : q[k].inst = m

\* a step that stays mounted under the next view
StaysMounted(inst) == inst

\* {view === AppView.RECONCILIATION && currentTask && <Reconciliation .../>}:
\* under any other view the element is not rendered and React unmounts the
\* instance
Unmounted(inst) == 0

\* a state setter called after its component has unmounted is dropped by
\* React; one called on the mounted instance updates the list on screen
SetterReaches(cb, inst) == cb.inst = inst

(***************************************************************************)
(* History kept for the properties.                                        *)
(***************************************************************************)
NoPrev == [op |-> "none", count |-> 0, dup |-> FALSE, before |-> Null]

NoEarlier == [op |-> "none", code |-> "", count |-> 0, dup |-> FALSE,
              before |-> Null]

NoEvent == [op |-> "none", code |-> "", count |-> 0, dup |-> FALSE,
            before |-> Null, list |-> <<>>, noted |-> {}, prompt |-> NoSku,
            launched |-> <<>>, stale |-> <<>>,
            prev |-> NoPrev, earlier |-> NoEarlier]

\* a scan or a quantity event
Counting(op) == op \in {"scan", "setQuantity"}

\* the event now handled: what it is (code is the identifier or the SKU it
\* is about), what it found (the session, the list under review, the rows
\* with a note, the SKU of the open zero prompt, the lists the pending timer
\* callbacks captured), in prev the event before it when both are about the
\* same identifier or SKU, and in earlier the event before it when both are
\* scan or quantity events
Event(op, code, count, dup) ==
    [ op |-> op, code |-> code, count |-> count, dup |-> dup,
      before |-> currentTask,
      list   |-> discrepancies,
      noted  |-> notes,
      prompt |-> zeroConfirmSku,
      launched |-> Captured(OwnCallbacks(timer, instance)),
      stale  |-> Captured(LeftCallbacks(timer)),
      prev   |-> IF code # "" /\ lastEvent.code = code
                 THEN [op |-> lastEvent.op, count |-> lastEvent.count,
                       dup |-> lastEvent.dup, before |-> lastEvent.before]
                 ELSE NoPrev,
      earlier |-> IF Counting(op) /\ Counting(lastEvent.op)
                  THEN [op |-> lastEvent.op, code |-> lastEvent.code,
                        count |-> lastEvent.count, dup |-> lastEvent.dup,
                        before |-> lastEvent.before]
                  ELSE NoEarlier ]

Other(op) == Event(op, "", 0, FALSE)

(***************************************************************************)
(* React commit.  A discrete DOM event is followed by a synchronous        *)
(* re-render: the handlers capture the new currentTask and the auto-save   *)
(* effect runs when currentTask was set.                                   *)
(***************************************************************************)
\* handlers and props memoized on the session's id and status: they keep
\* the session of the render that computed them
RenderedMemoized(old, new) ==
    IF old # Null /\ new # Null /\ old.id = new.id /\ old.status = new.status
    THEN old
    ELSE new

\* every render evaluates the body of App again: handleScan,
\* handleQuantityUpdate and the task prop of the step components are those
\* of the currentTask of that render
Rendered(old, new) == new

Commit(saved) ==
    /\ task' = IF saved /\ SaveThrows(currentTask', storeFails)
               THEN Null    \* an exception in the effect unmounts the tree
               ELSE Rendered(task, currentTask')
    /\ storage' = IF saved
                  THEN saveTaskToStorage(currentTask', storage, storeFails)
                  ELSE storage
    /\ errors' = IF saved THEN Reported(errors, currentTask', storeFails)
                 ELSE errors
    /\ errors' <= MaxErrors
    /\ UNCHANGED <<storeFails, overlays>>

ScannerLocalReset == scanResult' = Null /\ zeroConfirmSku' = NoSku

\* The view leaves RECONCILIATION: the state shown is gone with the
\* instance; every setTimeout callback it started stays scheduled.  `limit`
\* bounds the callbacks that may be pending at that moment.
ReconLocalReset(limit) ==
    /\ discrepancies' = <<>>
    /\ simulating' = FALSE
    /\ notes' = {}
    /\ instance' = Unmounted(instance)
    /\ Len(timer) <= limit
    /\ timer' = StepLeft(timer)

\* Reconciliation mounts: a new instance, its state initialized from the
\* task prop
ReconMount(t) ==
    /\ discrepancies' = InitialDiscrepancies(t)
    /\ simulating' = FALSE
    /\ notes' = {}
    /\ instance' = NewInstance(timer)
    /\ UNCHANGED timer

ScannerLocal == <<scanResult, zeroConfirmSku>>
ReconLocal == <<discrepancies, simulating, timer, notes, instance>>

(***************************************************************************)
(* Initial state of the hosted engine: mounted on an empty store.          *)
(***************************************************************************)
InitHosted ==
    /\ storage = NoRecord
    /\ storeFails = FALSE
    /\ errors = 0
    /\ overlays = TRUE
    /\ currentTask = Null
    /\ view = "DASHBOARD"
    /\ showConfirmModal = FALSE
    /\ task = Null
    /\ scanResult = Null
    /\ zeroConfirmSku = NoSku
    /\ discrepancies = <<>>
    /\ simulating = FALSE
    /\ timer = <<>>
    /\ instance = 0
    /\ notes = {}
    /\ lastEvent = NoEvent

\* the page is reloaded: the App mounts again on the stored record, and the
\* auto-save effect runs on mount; the timers of the old page are gone
Reload ==
    /\ currentTask' = loadTaskFromStorage(storage)
    /\ view' = "DASHBOARD"
    /\ showConfirmModal' = FALSE
    /\ ScannerLocalReset
    /\ discrepancies' = <<>>
    /\ simulating' = FALSE
    /\ timer' = <<>>
    /\ instance' = 0
    /\ notes' = {}
    /\ lastEvent' = Other("reload")
    /\ task' = IF SaveThrows(currentTask', storeFails) THEN Null ELSE currentTask'
    /\ storage' = saveTaskToStorage(currentTask', storage, storeFails)
    /\ errors' = Reported(0, currentTask', storeFails)
    /\ UNCHANGED <<storeFails, overlays>>

\* the environment: the store starts to refuse writes (quota, private mode)
storeBreaks ==
    /\ ~storeFails
    /\ storeFails' = TRUE
    /\ UNCHANGED <<storage, errors, currentTask, view, showConfirmModal, task,
                   scanResult, zeroConfirmSku, discrepancies, simulating, timer,
                   instance, notes, lastEvent, overlays>>

\* the environment: the store accepts writes again
storeRecovers ==
    /\ storeFails
    /\ storeFails' = FALSE
    /\ UNCHANGED <<storage, errors, currentTask, view, showConfirmModal, task,
                   scanResult, zeroConfirmSku, discrepancies, simulating, timer,
                   instance, notes, lastEvent, overlays>>

(***************************************************************************)
(* Dashboard.                                                              *)
(***************************************************************************)
\* a dashboard that never takes the completed branch
NeverCompleted(t) == FALSE

\* currentTask && currentTask.status === 'COMPLETED'
Completed(t) == t # Null /\ t.status = "COMPLETED"

\* App's render: the tree, overlays included, is returned only inside
\* if (view === AppView.DASHBOARD); under any other view it returns null
AppRenders(v) == v = "DASHBOARD"

\* the component of {view === v && currentTask && ...} is on screen in the
\* App as written: never under v # DASHBOARD
Mounted(v) ==
    /\ view = v
    /\ task # Null
    /\ AppRenders(view)

\* the host shows the component of view v with the props of lines 461-509
Hosted(v) ==
    /\ overlays
    /\ view = v
    /\ task # Null

\* the component of view v can be operated
Shown(v) == Mounted(v) \/ Hosted(v)

\* the start / resume button is in the card of a session that is not
\* completed; the completed-state card has none
StartButtonRendered == view = "DASHBOARD" /\ ~Completed(task)

prepareDailyTask ==
    /\ StartButtonRendered
    /\ ~showConfirmModal
    /\ currentTask' = IF task = Null THEN getDailyTask(today) ELSE currentTask
    /\ showConfirmModal' = TRUE
    /\ lastEvent' = Other("prepare")
    /\ UNCHANGED <<view, ScannerLocal, ReconLocal>>
    /\ Commit(task = Null)

cancelStart ==
    /\ view = "DASHBOARD"
    /\ showConfirmModal
    /\ showConfirmModal' = FALSE
    /\ lastEvent' = Other("cancelStart")
    /\ UNCHANGED <<currentTask, view, ScannerLocal, ReconLocal>>
    /\ Commit(FALSE)

startTask ==
    /\ view = "DASHBOARD"
    /\ showConfirmModal
    /\ showConfirmModal' = FALSE
    /\ lastEvent' = Other("start")
    /\ IF Completed(task)
       THEN UNCHANGED <<currentTask, view>>
       ELSE /\ currentTask' = IF task # Null /\ task.status = "PENDING"
                              THEN Spread(task, [status |-> "IN_PROGRESS"])
                              ELSE currentTask
            /\ view' = "SCANNER"
    /\ ScannerLocalReset
    /\ UNCHANGED ReconLocal
    /\ Commit(~Completed(task) /\ task # Null /\ task.status = "PENDING")

\* the two buttons of the completed-state card, and the way back
openCompletedView(v) ==
    /\ view = "DASHBOARD"
    /\ ~showConfirmModal
    /\ Completed(task)
    /\ view' = v
    /\ lastEvent' = Other("open")
    /\ UNCHANGED <<currentTask, showConfirmModal, ScannerLocal, ReconLocal>>
    /\ Commit(FALSE)

closeCompletedView ==
    /\ view \in {"SIGNATURE_VIEW", "INVENTORY_DETAIL"}
    /\ Shown(view)
    /\ view' = "DASHBOARD"
    /\ lastEvent' = Other("close")
    /\ UNCHANGED <<currentTask, showConfirmModal, ScannerLocal, ReconLocal>>
    /\ Commit(FALSE)

(***************************************************************************)
(* Scanner.  Its events are discrete DOM events (click, submit, change):    *)
(* React re-renders after each one, before the next is handled.            *)
(***************************************************************************)
ScannerMounted == Mounted("SCANNER")

ScannerShown == Shown("SCANNER")

\* nothing covers the list and the action bar
ScannerIdle == ScannerShown /\ zeroConfirmSku = NoSku

processScan(code) ==
    LET dup == Has(task.scannedImeis, code) IN
    /\ scanResult' = [code |-> code, isDuplicate |-> dup]
    /\ currentTask' = IF dup THEN currentTask ELSE handleScan(task, code)
    /\ lastEvent' = Event("scan", code, 0, dup)
    /\ UNCHANGED <<view, showConfirmModal, zeroConfirmSku, ReconLocal>>
    /\ Commit(~dup)

\* the code handleSimulatedCameraScan picks
SimulatedTarget(t) ==
    LET firstScan == Find(unscannedItems(t), LAMBDA i : i.countMethod = "SCAN")
        target    == IF firstScan # <<>> THEN firstScan
                     ELSE IF unscannedItems(t) # <<>> THEN <<unscannedItems(t)[1]>>
                     ELSE <<>>
    IN  IF target # <<>> THEN target[1].imei ELSE FallbackCode

handleSimulatedCameraScan ==
    /\ ScannerIdle
    /\ processScan(SimulatedTarget(task))

handleManualScan(manualInput) ==
    /\ ScannerIdle
    /\ Len(manualInput) > 4
    /\ processScan(manualInput)

\* the button of the result sheet, which the camera overlay shows; the
\* zero-quantity prompt covers the overlay and the button that opens it
dismissScanResult ==
    /\ ScannerIdle
    /\ scanResult # Null
    /\ scanResult' = Null
    /\ lastEvent' = Other("dismiss")
    /\ UNCHANGED <<currentTask, view, showConfirmModal, zeroConfirmSku, ReconLocal>>
    /\ Commit(FALSE)

onQuantityUpdate(sku, count) ==
    /\ currentTask' = handleQuantityUpdate(task, sku, count)
    /\ lastEvent' = Event("setQuantity", sku, count, FALSE)
    /\ UNCHANGED <<view, showConfirmModal, scanResult, ReconLocal>>
    /\ Commit(TRUE)

\* the items that show the quantity controls
QuantityItems(t) == {i \in 1..Len(t.items) : t.items[i].countMethod # "SCAN"}

\* item.manualCount || 0
ManualCountOrZero(item) ==
    IF "manualCount" \in DOMAIN item THEN item.manualCount ELSE 0

askZero(sku) ==
    /\ zeroConfirmSku' = sku
    /\ lastEvent' = Event("askZero", sku, 0, FALSE)
    /\ UNCHANGED <<currentTask, view, showConfirmModal, scanResult, ReconLocal>>
    /\ Commit(FALSE)

handleQuantityChange(i, val) ==
    /\ ScannerIdle
    /\ i \in QuantityItems(task)
    /\ LET sku == task.items[i].sku
           num == ParseInt(val)
       IN  IF val = "" \/ (~num.nan /\ num.num = 0)
           THEN askZero(sku)
           ELSE /\ ~num.nan
                /\ onQuantityUpdate(sku, num.num)
                /\ UNCHANGED zeroConfirmSku

confirmZeroQuantity ==
    /\ ScannerShown
    /\ zeroConfirmSku # NoSku
    /\ onQuantityUpdate(zeroConfirmSku, 0)
    /\ zeroConfirmSku' = NoSku

cancelZeroQuantity ==
    /\ ScannerShown
    /\ zeroConfirmSku # NoSku
    /\ zeroConfirmSku' = NoSku
    /\ lastEvent' = Event("cancelZero", zeroConfirmSku, 0, FALSE)
    /\ UNCHANGED <<currentTask, view, showConfirmModal, scanResult, ReconLocal>>
    /\ Commit(FALSE)

incrementQuantity(i) ==
    /\ ScannerIdle
    /\ i \in QuantityItems(task)
    /\ ManualCountOrZero(task.items[i]) < MaxCount
    /\ onQuantityUpdate(task.items[i].sku, ManualCountOrZero(task.items[i]) + 1)
    /\ UNCHANGED zeroConfirmSku

decrementQuantity(i) ==
    /\ ScannerIdle
    /\ i \in QuantityItems(task)
    /\ LET sku     == task.items[i].sku
           current == ManualCountOrZero(task.items[i])
       IN  IF current - 1 <= 0
           THEN askZero(sku)
           ELSE /\ onQuantityUpdate(sku, current - 1)
                /\ UNCHANGED zeroConfirmSku

scannerBack ==
    /\ ScannerIdle
    /\ view' = "DASHBOARD"
    /\ ScannerLocalReset
    /\ lastEvent' = Other("scannerBack")
    /\ UNCHANGED <<currentTask, showConfirmModal, ReconLocal>>
    /\ Commit(FALSE)

\* "submit count": the Scanner unmounts and Reconciliation mounts
scannerFinish ==
    /\ ScannerIdle
    /\ view' = "RECONCILIATION"
    /\ ScannerLocalReset
    /\ ReconMount(task)
    /\ lastEvent' = Other("submitCount")
    /\ UNCHANGED <<currentTask, showConfirmModal>>
    /\ Commit(FALSE)

(***************************************************************************)
(* Reconciliation.                                                         *)
(***************************************************************************)
ReconMounted == Mounted("RECONCILIATION")

ReconShown == Shown("RECONCILIATION")

\* the note <input> exists only under a row whose reason is OTHER
NoteRows(list) ==
    {list[k].imei : k \in {j \in 1..Len(list) :
        ~list[j].autoResolved /\ "reason" \in DOMAIN list[j]
        /\ list[j].reason = "OTHER"}}

\* the trigger button: disabled={simulating}
CheckButtonEnabled == ~simulating

\* handleDynamicCheck: the callback captures the list of this render
handleDynamicCheck ==
    /\ ReconShown
    /\ CheckButtonEnabled
    /\ simulating' = TRUE
    /\ timer' = Append(timer, Callback(instance, discrepancies))
    /\ lastEvent' = Other("dynamicCheck")
    /\ UNCHANGED <<currentTask, view, showConfirmModal, ScannerLocal,
                   discrepancies, notes, instance>>
    /\ Commit(FALSE)

\* the setTimeout callback: it maps the list captured when the pass started
\* and calls setDiscrepancies(updated) and setSimulating(false) of the
\* instance that started it, whatever is on screen by now; React re-renders
\* when a setter reached a mounted instance
dynamicCheckTimeout ==
    /\ timer # <<>>
    /\ UNCHANGED <<currentTask, view, showConfirmModal, ScannerLocal, instance>>
    /\ LET cb      == Head(timer)
           updated == DynamicCheckResult(cb.list)
       IN  /\ IF SetterReaches(cb, instance)
              THEN /\ discrepancies' = updated
                   /\ simulating' = FALSE
                   /\ notes' = notes \cap NoteRows(discrepancies')
                   /\ Commit(FALSE)
              ELSE UNCHANGED <<discrepancies, simulating, notes, task, storage,
                               errors, storeFails, overlays>>
           /\ lastEvent' = Other(IF cb.left THEN "dynamicCheckStale"
                                 ELSE "dynamicCheckDone")
    /\ timer' = Tail(timer)

\* the <select> of a row that is not auto-resolved
reasonSelected(imei, reason) ==
    /\ ReconShown
    /\ \E k \in 1..Len(discrepancies) :
          discrepancies[k].imei = imei /\ ~discrepancies[k].autoResolved
    /\ discrepancies' = handleReasonChange(discrepancies, imei, reason)
    /\ notes' = notes \cap NoteRows(discrepancies')
    /\ lastEvent' = Event("reason", imei, 0, FALSE)
    /\ UNCHANGED <<currentTask, view, showConfirmModal, ScannerLocal,
                   simulating, timer, instance>>
    /\ Commit(FALSE)

\* the operator types a note into the uncontrolled <input> of an OTHER row
noteTyped(imei) ==
    /\ ReconShown
    /\ imei \in NoteRows(discrepancies)
    /\ imei \notin notes
    /\ notes' = notes \cup {imei}
    /\ lastEvent' = Event("note", imei, 0, FALSE)
    /\ UNCHANGED <<currentTask, view, showConfirmModal, ScannerLocal,
                   discrepancies, simulating, timer, instance>>
    /\ Commit(FALSE)

\* the operator empties the <input> of an OTHER row again
noteErased(imei) ==
    /\ ReconShown
    /\ imei \in NoteRows(discrepancies)
    /\ imei \in notes
    /\ notes' = notes \ {imei}
    /\ lastEvent' = Event("noteErased", imei, 0, FALSE)
    /\ UNCHANGED <<currentTask, view, showConfirmModal, ScannerLocal,
                   discrepancies, simulating, timer, instance>>
    /\ Commit(FALSE)

\* handleSubmit: scroll to the first unresolved entry, or, when there is
\* none, onConfirm = handleReconciliationFinish
handleSubmit(limit) ==
    /\ ReconShown
    /\ IF firstUnresolved(discrepancies) # <<>>
       THEN /\ lastEvent' = Event("submit", firstUnresolved(discrepancies)[1].imei,
                                  0, FALSE)
            /\ UNCHANGED <<currentTask, view, showConfirmModal, ScannerLocal,
                           ReconLocal>>
            /\ Commit(FALSE)
       ELSE /\ currentTask' = handleReconciliationFinish(task, discrepancies)
            /\ view' = "SIGNATURE"
            /\ ReconLocalReset(limit)
            /\ lastEvent' = Event("submit", "", 0, FALSE)
            /\ UNCHANGED <<showConfirmModal, ScannerLocal>>
            /\ Commit(TRUE)

reconBack(limit) ==
    /\ ReconShown
    /\ view' = "SCANNER"
    /\ ReconLocalReset(limit)
    /\ ScannerLocalReset
    /\ lastEvent' = Other("reconBack")
    /\ UNCHANGED <<currentTask, showConfirmModal>>
    /\ Commit(FALSE)

(***************************************************************************)
(* Signature screen.                                                       *)
(***************************************************************************)
SignatureMounted == Mounted("SIGNATURE")

SignatureShown == Shown("SIGNATURE")

signatureClose ==
    /\ SignatureShown
    /\ view' = "RECONCILIATION"
    /\ ReconMount(task)
    /\ lastEvent' = Other("signatureClose")
    /\ UNCHANGED <<currentTask, showConfirmModal, ScannerLocal>>
    /\ Commit(FALSE)

\* onFinish = handleSignatureFinish, which also saves finalTask itself
signatureFinish ==
    /\ SignatureShown
    /\ currentTask' = handleSignatureFinish(task)
    /\ view' = "DASHBOARD"
    /\ lastEvent' = Other("signed")
    /\ UNCHANGED <<showConfirmModal, ScannerLocal, ReconLocal>>
    /\ task' = IF SaveThrows(currentTask', storeFails) THEN Null
               ELSE Rendered(task, currentTask')
    /\ storage' = saveTaskToStorage(currentTask',
                      saveTaskToStorage(currentTask', storage, storeFails),
                      storeFails)
    /\ errors' = Reported(Reported(errors, currentTask', storeFails),
                          currentTask', storeFails)
    /\ errors' <= MaxErrors
    /\ UNCHANGED <<storeFails, overlays>>

(***************************************************************************)
(* The hosted engine: every event is followed by React's re-render.        *)
(***************************************************************************)
NextHosted ==
    \/ Reload
    \/ prepareDailyTask
    \/ cancelStart
    \/ startTask
    \/ \E v \in {"SIGNATURE_VIEW", "INVENTORY_DETAIL"} : openCompletedView(v)
    \/ closeCompletedView
    \/ handleSimulatedCameraScan
    \/ \E c \in ManualCodes : handleManualScan(c)
    \/ dismissScanResult
    \/ \E i \in 1..(TaskPhones + TaskAccessories), val \in QuantityInputs :
          handleQuantityChange(i, val)
    \/ confirmZeroQuantity
    \/ cancelZeroQuantity
    \/ \E i \in 1..(TaskPhones + TaskAccessories) : incrementQuantity(i)
    \/ \E i \in 1..(TaskPhones + TaskAccessories) : decrementQuantity(i)
    \/ scannerBack
    \/ scannerFinish
    \/ handleDynamicCheck
    \/ dynamicCheckTimeout
    \/ \E k \in 1..Len(discrepancies), r \in ReasonOptions :
          reasonSelected(discrepancies[k].imei, r)
    \/ \E k \in 1..Len(discrepancies) : noteTyped(discrepancies[k].imei)
    \/ \E k \in 1..Len(discrepancies) : noteErased(discrepancies[k].imei)
    \/ handleSubmit(HostedOrphans)
    \/ reconBack(HostedOrphans)
    \/ signatureClose
    \/ signatureFinish

SpecHosted == InitHosted /\ [][NextHosted]_vars

(***************************************************************************)
(* The engine around the auto-reconciliation pass, with the timer          *)
(* callbacks of unmounted Reconciliation instances followed until they run.*)
(***************************************************************************)
NextStale ==
    \/ prepareDailyTask
    \/ startTask
    \/ handleSimulatedCameraScan
    \/ dismissScanResult
    \/ scannerFinish
    \/ handleDynamicCheck
    \/ dynamicCheckTimeout
    \/ \E k \in 1..Len(discrepancies), r \in ReasonOptions :
          reasonSelected(discrepancies[k].imei, r)
    \/ handleSubmit(MaxOrphans)
    \/ reconBack(MaxOrphans)
    \/ signatureClose
    \/ signatureFinish

SpecStale == InitHosted /\ [][NextStale]_vars

(***************************************************************************)
(* The discrepancy calculator on its own: the session under count is any   *)
(* expectation list with unique identifiers and any observed set, and the  *)
(* operator submits the count.                                             *)
(***************************************************************************)
CalcMaxItems == 2
CalcMaxObserved == 3

CalcProducts == {Product(0), Product(1), Product(AccessoryStart)}

CalcCodes == {p.imei : p \in CalcProducts} \cup {FallbackCode, UnknownCode}

\* the duplicate-free sequences over S of length at most n
UniqueSeqs(S, n) ==
    UNION {{q \in [1..k -> S] : \A i, j \in 1..k : i # j => q[i] # q[j]} : k \in 0..n}

CalcTasks ==
    {[getDailyTask(today) EXCEPT !.items = its,
                                 !.scannedImeis = NewSet(obs),
                                 !.status = "IN_PROGRESS"] :
        its \in UniqueSeqs(CalcProducts, CalcMaxItems),
        obs \in UniqueSeqs(CalcCodes, CalcMaxObserved)}

InitCalc ==
    /\ currentTask \in CalcTasks
    /\ task = currentTask
    /\ storage = Stringify(currentTask)
    /\ storeFails = FALSE
    /\ errors = 0
    /\ overlays = TRUE
    /\ view = "SCANNER"
    /\ showConfirmModal = FALSE
    /\ scanResult = Null
    /\ zeroConfirmSku = NoSku
    /\ discrepancies = <<>>
    /\ simulating = FALSE
    /\ timer = <<>>
    /\ instance = 0
    /\ notes = {}
    /\ lastEvent = NoEvent

NextCalc == scannerFinish \/ reconBack(HostedOrphans)

SpecCalc == InitCalc /\ [][NextCalc]_vars

(***************************************************************************)
(* The hosted engine on a store that may hold nothing or an unparsable      *)
(* record when the App mounts, and that may refuse writes.                 *)
(***************************************************************************)
\* the App has mounted on the record it found: currentTask is what
\* loadTaskFromStorage returned and the auto-save effect has run
InitStore ==
    /\ \E found \in {NoRecord, Corrupt} :
          /\ currentTask = loadTaskFromStorage(found)
          /\ storage = saveTaskToStorage(currentTask, found, FALSE)
          /\ lastEvent = [NoEvent EXCEPT !.op = "mount", !.code = found.kind]
    /\ task = currentTask
    /\ storeFails = FALSE
    /\ errors = 0
    /\ overlays = TRUE
    /\ view = "DASHBOARD"
    /\ showConfirmModal = FALSE
    /\ scanResult = Null
    /\ zeroConfirmSku = NoSku
    /\ discrepancies = <<>>
    /\ simulating = FALSE
    /\ timer = <<>>
    /\ instance = 0
    /\ notes = {}

NextStore ==
    \/ Reload
    \/ storeBreaks
    \/ storeRecovers
    \/ prepareDailyTask
    \/ startTask
    \/ handleSimulatedCameraScan
    \/ dismissScanResult
    \/ \E i \in 1..(TaskPhones + TaskAccessories) : incrementQuantity(i)
    \/ scannerFinish
    \/ \E k \in 1..Len(discrepancies), r \in ReasonOptions :
          reasonSelected(discrepancies[k].imei, r)
    \/ handleSubmit(HostedOrphans)
    \/ signatureFinish

SpecStore == InitStore /\ [][NextStore]_vars

(***************************************************************************)
(* The App as written, opened on what an earlier page of it left in the    *)
(* store.                                                                  *)
(***************************************************************************)
\* the day before today
yesterday == "2025-12-14"

\* what an earlier page of this App can have left in the store: nothing, an
\* unparsable record, or the session of some day, prepared or started
AppRecords ==
    {NoRecord, Corrupt}
        \cup {Stringify(getDailyTask(d)) : d \in {yesterday, today}}
        \cup {Stringify(Spread(getDailyTask(d), [status |-> "IN_PROGRESS"])) :
                 d \in {yesterday, today}}

Init ==
    /\ \E found \in AppRecords :
          /\ currentTask = loadTaskFromStorage(found)
          /\ storage = saveTaskToStorage(currentTask, found, FALSE)
          /\ lastEvent = [NoEvent EXCEPT !.op = "mount", !.code = found.kind]
    /\ task = currentTask
    /\ storeFails = FALSE
    /\ errors = 0
    /\ overlays = FALSE
    /\ view = "DASHBOARD"
    /\ showConfirmModal = FALSE
    /\ scanResult = Null
    /\ zeroConfirmSku = NoSku
    /\ discrepancies = <<>>
    /\ simulating = FALSE
    /\ timer = <<>>
    /\ instance = 0
    /\ notes = {}

\* the events the rendered tree offers
Next ==
    \/ Reload
    \/ storeBreaks
    \/ storeRecovers
    \/ prepareDailyTask
    \/ cancelStart
    \/ startTask

Spec == Init /\ [][Next]_vars

(***************************************************************************)
(* The App as written opened on a later day: it mounts on the stored       *)
(* session, which a hosted count completed the day before.                 *)
(***************************************************************************)
NewDayMaxObserved == 3


NewDayCodes == {Product(0).imei, Product(AccessoryStart).imei, FallbackCode, UnknownCode}

\* a list after reconciliation: the oracle's answers, OTHER for the rest
Settled(list) ==
    LET checked == DynamicCheckResult(list) IN
    [k \in 1..Len(checked) |->
        IF Unresolved(checked[k]) THEN Spread(checked[k], [reason |-> "OTHER"])
        ELSE checked[k]]

\* the session after the scans of codes, in order, each through handleScan
RECURSIVE ScannedAll(_, _)
ScannedAll(t, codes) ==
    IF codes = <<>> THEN t
    ELSE ScannedAll(handleScan(t, Head(codes)), Tail(codes))

\* the sessions of yesterday after the signature step, as a hosted count
\* leaves them: started, scanned code by code, reconciled and signed
YesterdayTasks ==
    {LET counted == ScannedAll(Spread(getDailyTask(yesterday),
                                      [status |-> "IN_PROGRESS"]), obs)
     IN  handleSignatureFinish(
             handleReconciliationFinish(counted, Settled(ComputeDiscrepancies(counted)))) :
        obs \in UniqueSeqs(NewDayCodes, NewDayMaxObserved)}

InitNewDay ==
    /\ \E t \in YesterdayTasks :
          /\ storage = Stringify(t)
          /\ currentTask = loadTaskFromStorage(storage)
    /\ task = currentTask
    /\ storeFails = FALSE
    /\ errors = 0
    /\ overlays = FALSE
    /\ view = "DASHBOARD"
    /\ showConfirmModal = FALSE
    /\ scanResult = Null
    /\ zeroConfirmSku = NoSku
    /\ discrepancies = <<>>
    /\ simulating = FALSE
    /\ timer = <<>>
    /\ instance = 0
    /\ notes = {}
    /\ lastEvent = NoEvent

NextNewDay ==
    \/ Reload
    \/ \E v \in {"SIGNATURE_VIEW", "INVENTORY_DETAIL"} : openCompletedView(v)

SpecNewDay == InitNewDay /\ [][NextNewDay]_vars

(***************************************************************************)
(* Properties.                                                             *)
(***************************************************************************)
Expected(t) == {t.items[i].imei : i \in 1..Len(t.items)}
Observed(t) == Range(ArrayFrom(t.scannedImeis))
EntriesFor(list, imei) == {k \in 1..Len(list) : list[k].imei = imei}

\* C1: when the calculator runs on a session whose stored discrepancy list
\* is empty, every expected identifier that is not observed has exactly one
\* entry and it is a SHORTAGE, every observed identifier that is not expected
\* has exactly one entry and it is an OVERAGE, an identifier that is expected
\* and observed has none, and there are no other entries.
CalculatorPartitions ==
    (view = "RECONCILIATION" /\ Len(task.discrepancies) = 0) =>
        /\ \A c \in Expected(task) \ Observed(task) :
              /\ Cardinality(EntriesFor(discrepancies, c)) = 1
              /\ \A k \in EntriesFor(discrepancies, c) :
                    discrepancies[k].type = "SHORTAGE"
        /\ \A c \in Observed(task) \ Expected(task) :
              /\ Cardinality(EntriesFor(discrepancies, c)) = 1
              /\ \A k \in EntriesFor(discrepancies, c) :
                    discrepancies[k].type = "OVERAGE"
        /\ \A c \in Expected(task) \cap Observed(task) :
              EntriesFor(discrepancies, c) = {}
        /\ \A k \in 1..Len(discrepancies) :
              discrepancies[k].imei \in
                  (Expected(task) \ Observed(task))
                      \cup (Observed(task) \ Expected(task))

\* the calculator ran on a session with a missing item, an extra identifier
\* and an item that was expected and observed
CalculatorRan ==
    /\ view = "RECONCILIATION"
    /\ Len(task.discrepancies) = 0
    /\ Expected(task) \ Observed(task) # {}
    /\ Observed(task) \ Expected(task) # {}
    /\ Expected(task) \cap Observed(task) # {}
    /\ Len(discrepancies) >= 2

\* a discrepancy list agrees with the ledger of session t
ListMatchesLedger(list, t) ==
    \A k \in 1..Len(list) :
        /\ list[k].type = "SHORTAGE" =>
              list[k].imei \in Expected(t) \ Observed(t)
        /\ list[k].type = "OVERAGE" =>
              list[k].imei \in Observed(t) \ Expected(t)

\* C2: in every reachable state every SHORTAGE of the stored list and of the
\* list shown in reconciliation names an expected item that is not observed,
\* and every OVERAGE an observed identifier that is not expected.
DiscrepanciesMatchLedger ==
    currentTask # Null =>
        /\ ListMatchesLedger(currentTask.discrepancies, currentTask)
        /\ view = "RECONCILIATION" =>
              ListMatchesLedger(discrepancies, currentTask)

ScanOf(e) == e.op = "scan"

\* C3: when an identifier that is not in the observed set is scanned twice in
\* a row, each scan followed by a re-render, the first scan is reported as
\* not a duplicate, the second as a duplicate, and the observed set holds
\* the identifier and is one element larger than before the first scan.
ScanTwiceReportsDuplicate ==
    ( /\ ScanOf(lastEvent)
      /\ ScanOf(lastEvent.prev)
      /\ ~Has(lastEvent.prev.before.scannedImeis, lastEvent.code) ) =>
        /\ ~lastEvent.prev.dup
        /\ lastEvent.dup
        /\ scanResult = [code |-> lastEvent.code, isDuplicate |-> TRUE]
        /\ Has(currentTask.scannedImeis, lastEvent.code)
        /\ Size(currentTask.scannedImeis)
              = Size(lastEvent.prev.before.scannedImeis) + 1

\* an identifier that was not observed has just been scanned twice in a row
ScannedTwice ==
    /\ ScanOf(lastEvent)
    /\ ScanOf(lastEvent.prev)
    /\ ~Has(lastEvent.prev.before.scannedImeis, lastEvent.code)
    /\ scanResult # Null
    /\ scanResult.isDuplicate

QuantityOf(e) == e.op = "setQuantity"

CountingEvent(e) == ScanOf(e) \/ QuantityOf(e)

\* the session that results when scan or quantity event e is applied to
\* session t
Applied(t, e) ==
    IF ScanOf(e)
    THEN IF Has(t.scannedImeis, e.code) THEN t ELSE handleScan(t, e.code)
    ELSE handleQuantityUpdate(t, e.code, e.count)

\* the SKU's representative identifier in session t: <<>> or <<imei>>
Representative(t, sku) ==
    LET item == Find(t.items, LAMBDA i : i.sku = sku) IN
    IF item = <<>> THEN <<>> ELSE <<item[1].imei>>

\* C5: setQuantity(sku, count) for an expected SKU sets manualCount to count
\* on the SKU's items; with count > 0 the representative identifier is
\* observed afterwards and progress has not decreased, and has increased if
\* the identifier was absent; with count = 0 it is not observed afterwards,
\* and progress has decreased if it was present.
QuantitySetsCountAndMembership ==
    (QuantityOf(lastEvent) /\ Representative(lastEvent.before, lastEvent.code) # <<>>) =>
        LET sku == lastEvent.code
            rep == Representative(lastEvent.before, sku)[1]
            was == Has(lastEvent.before.scannedImeis, rep)
            now == Has(currentTask.scannedImeis, rep)
            p0  == getProgressStats(lastEvent.before)
            p1  == getProgressStats(currentTask)
        IN  /\ \A i \in 1..Len(currentTask.items) :
                  currentTask.items[i].sku = sku =>
                      /\ "manualCount" \in DOMAIN currentTask.items[i]
                      /\ currentTask.items[i].manualCount = lastEvent.count
            /\ p1.total = p0.total
            /\ lastEvent.count > 0 =>
                  /\ now
                  /\ p1.current >= p0.current
                  /\ ~was => p1.current > p0.current
            /\ lastEvent.count = 0 =>
                  /\ ~now
                  /\ was => p1.current < p0.current

\* a SKU that had a positive count and was observed has just been set to 0
QuantitySetBackToZero ==
    /\ QuantityOf(lastEvent)
    /\ lastEvent.count = 0
    /\ \E i \in 1..Len(lastEvent.before.items) :
          /\ lastEvent.before.items[i].sku = lastEvent.code
          /\ ManualCountOrZero(lastEvent.before.items[i]) > 0
          /\ Has(lastEvent.before.scannedImeis, lastEvent.before.items[i].imei)
          /\ ~Has(currentTask.scannedImeis, lastEvent.before.items[i].imei)

\* C6: a count < 0 is rejected: the session (manualCount, observed set,
\* last-action record) is as it was before the event.
NegativeQuantityRejected ==
    (QuantityOf(lastEvent) /\ lastEvent.count < 0) =>
        currentTask = lastEvent.before

\* C7: an identifier leaves the observed set only by the operator confirming
\* the zero-quantity prompt of its SKU.
RemovalOnlyAfterZeroConfirm ==
    (lastEvent.before # Null /\ currentTask # Null) =>
        \A c \in Observed(lastEvent.before) \ Observed(currentTask) :
            /\ QuantityOf(lastEvent)
            /\ lastEvent.count = 0
            /\ lastEvent.prompt = lastEvent.code
            /\ Representative(lastEvent.before, lastEvent.code) = <<c>>

\* C8: a quantity set (to 0 or to a positive value) leaves manualCount and
\* observed-set membership of every item of another SKU as they were, and
\* after a SKU is set to 0 and then to a positive value its representative
\* identifier is observed.
ZeroThenPositiveRestores ==
    (QuantityOf(lastEvent) /\ lastEvent.count >= 0) =>
        /\ Len(currentTask.items) = Len(lastEvent.before.items)
        /\ \A i \in 1..Len(lastEvent.before.items) :
              lastEvent.before.items[i].sku # lastEvent.code =>
                  /\ currentTask.items[i] = lastEvent.before.items[i]
                  /\ Has(currentTask.scannedImeis, lastEvent.before.items[i].imei)
                        <=> Has(lastEvent.before.scannedImeis,
                                lastEvent.before.items[i].imei)
        /\ ( /\ lastEvent.count > 0
             /\ QuantityOf(lastEvent.prev)
             /\ lastEvent.prev.count = 0 ) =>
              \E c \in Observed(currentTask) :
                  Representative(currentTask, lastEvent.code) = <<c>>

\* a SKU was set to 0 and then to a positive value while an item of another
\* SKU was observed
ZeroThenPositiveDone ==
    /\ QuantityOf(lastEvent)
    /\ lastEvent.count > 0
    /\ QuantityOf(lastEvent.prev)
    /\ lastEvent.prev.count = 0
    /\ \E i \in 1..Len(currentTask.items) :
          /\ currentTask.items[i].sku # lastEvent.code
          /\ Has(currentTask.scannedImeis, currentTask.items[i].imei)

\* autoResolved == false and no reason set
Blocking(d) == ~d.autoResolved /\ ("reason" \notin DOMAIN d \/ d.reason = "")

SomeBlocking(list) == \E k \in 1..Len(list) : Blocking(list[k])

\* C9: a reconciliation submit is refused (the view stays on reconciliation
\* and nothing changes) if and only if some discrepancy of the list has
\* autoResolved false and no reason; when it is permitted the session's
\* discrepancy list is the reviewed list and the view is the signature step.
SubmitRefusedIffUnresolved ==
    lastEvent.op = "submit" =>
        /\ view \in {"RECONCILIATION", "SIGNATURE"}
        /\ view = "RECONCILIATION" <=> SomeBlocking(lastEvent.list)
        /\ view = "RECONCILIATION" =>
              /\ currentTask = lastEvent.before
              /\ discrepancies = lastEvent.list
        /\ view = "SIGNATURE" =>
              /\ currentTask.discrepancies = lastEvent.list
              /\ currentTask = [lastEvent.before EXCEPT !.discrepancies = lastEvent.list]

\* a submit was permitted on a list with an auto-resolved entry and an entry
\* with an operator-assigned reason
SubmitPermitted ==
    /\ lastEvent.op = "submit"
    /\ view = "SIGNATURE"
    /\ \E k \in 1..Len(lastEvent.list) : lastEvent.list[k].autoResolved
    /\ \E k \in 1..Len(lastEvent.list) :
          ~lastEvent.list[k].autoResolved /\ IsTruthyReason(lastEvent.list[k])

\* C10: a submit is refused while some discrepancy has the reason OTHER and
\* no note.
OtherWithoutNoteBlocks ==
    ( /\ lastEvent.op = "submit"
      /\ \E k \in 1..Len(lastEvent.list) :
            /\ ~lastEvent.list[k].autoResolved
            /\ IsTruthyReason(lastEvent.list[k])
            /\ lastEvent.list[k].reason = "OTHER"
            /\ lastEvent.list[k].imei \notin lastEvent.noted ) =>
        view = "RECONCILIATION"

\* the oracle's answers to the entries of a list that are unresolved
Answered(list) ==
    {k \in 1..Len(list) : Blocking(list[k]) /\ checkDynamicStatus(list[k].imei) # <<>>}

PassDone == lastEvent.op = "dynamicCheckDone" /\ lastEvent.launched # <<>>

\* C11: when a pass completes, every entry that was unresolved at launch and
\* has an oracle answer is auto-resolved with that answer as its reason, and
\* every other entry (settled at launch, or unresolved with no answer) is as
\* it was at launch.
PassAppliesOracleAnswers ==
    PassDone =>
        LET launch == Head(lastEvent.launched) IN
        /\ Len(discrepancies) = Len(launch)
        /\ \A k \in 1..Len(launch) :
              IF k \in Answered(launch)
              THEN discrepancies[k] =
                       [autoResolved |-> TRUE,
                        reason |-> checkDynamicStatus(launch[k].imei)[1]] @@ launch[k]
              ELSE discrepancies[k] = launch[k]

\* a pass completed on a list with an entry the oracle answers and an
\* unresolved entry it does not answer
PassCompletedMixed ==
    /\ PassDone
    /\ Answered(Head(lastEvent.launched)) # {}
    /\ \E k \in 1..Len(Head(lastEvent.launched)) :
          /\ Blocking(Head(lastEvent.launched)[k])
          /\ k \notin Answered(Head(lastEvent.launched))
          /\ Blocking(discrepancies[k])

\* C12: a pass that completes with no operator edit since its launch leaves a
\* list that the next pass, run to completion on it, returns unchanged.
PassIdempotent ==
    (PassDone /\ lastEvent.list = Head(lastEvent.launched)) =>
        DynamicCheckResult(discrepancies) = discrepancies

\* a second pass completed on the result of an earlier pass, with no edit
\* in between, and left the list as it was
SecondPassCompleted ==
    /\ PassDone
    /\ lastEvent.list = Head(lastEvent.launched)
    /\ \E k \in 1..Len(lastEvent.list) : lastEvent.list[k].autoResolved
    /\ \E k \in 1..Len(lastEvent.list) : Blocking(lastEvent.list[k])
    /\ discrepancies = lastEvent.list

\* C13: a pass leaves every settled entry alone: an entry that is
\* auto-resolved or carries an operator-assigned reason when the pass
\* completes, also a reason assigned while the pass was in flight, is the
\* same entry afterwards.
PassKeepsSettledEntries ==
    PassDone =>
        /\ Len(discrepancies) = Len(lastEvent.list)
        /\ \A k \in 1..Len(lastEvent.list) :
              ~Blocking(lastEvent.list[k]) => discrepancies[k] = lastEvent.list[k]

\* C14: the pass is single-flight: at most one pass is in flight at any
\* time, whichever step started it, and a trigger handled while a pass is in
\* flight starts no second pass.
SingleFlight ==
    /\ Len(timer) <= 1
    /\ lastEvent.op = "dynamicCheck" =>
          lastEvent.launched = <<>> /\ lastEvent.stale = <<>>

\* C15: the result of a pass that arrives after the operator left the
\* reconciliation step it was launched from is discarded: when it arrives,
\* the session, the stored session and the list on screen are as they were;
\* and the list shown when reconciliation is entered is the one the session
\* gives, whatever pass is still pending.
StaleResultDiscarded ==
    /\ lastEvent.op = "dynamicCheckStale" =>
          /\ currentTask = lastEvent.before
          /\ loadTaskFromStorage(storage) = lastEvent.before
          /\ discrepancies = lastEvent.list
    /\ lastEvent.op \in {"submitCount", "signatureClose"} =>
          discrepancies = InitialDiscrepancies(currentTask)

\* a stale result arrived while reconciliation was on screen again, and
\* differs from the list shown
StaleResultArrived ==
    /\ lastEvent.op = "dynamicCheckStale"
    /\ view = "RECONCILIATION"
    /\ lastEvent.stale # <<>>
    /\ DynamicCheckResult(Head(lastEvent.stale)) # discrepancies

\* the lists captured by the pending passes of the step on screen
InFlight == Captured(OwnCallbacks(timer, instance))

\* C16: the answers of a pass are applied in one step: while the pass is
\* pending no entry that was unresolved at launch is auto-resolved, and when
\* it completes every answer is applied.
PassAppliedInOneStep ==
    /\ InFlight # <<>> =>
          /\ Len(discrepancies) = Len(Head(InFlight))
          /\ \A k \in 1..Len(Head(InFlight)) :
                Blocking(Head(InFlight)[k]) => ~discrepancies[k].autoResolved
    /\ PassDone =>
          \A k \in Answered(Head(lastEvent.launched)) :
              /\ discrepancies[k].autoResolved
              /\ discrepancies[k].reason =
                    checkDynamicStatus(Head(lastEvent.launched)[k].imei)[1]

\* a pass with two answers completed
PassAppliedTwoAnswers ==
    /\ PassDone
    /\ Cardinality(Answered(Head(lastEvent.launched))) >= 2
    /\ \A k \in Answered(Head(lastEvent.launched)) : discrepancies[k].autoResolved

\* C17: the signature step leaves the session COMPLETED, and whenever the
\* session is COMPLETED the store holds a record that loads as a COMPLETED
\* session.
SignaturePersistsCompleted ==
    /\ lastEvent.op = "signed" =>
          currentTask # Null /\ currentTask.status = "COMPLETED"
    /\ (currentTask # Null /\ currentTask.status = "COMPLETED") =>
          /\ loadTaskFromStorage(storage) # Null
          /\ loadTaskFromStorage(storage).status = "COMPLETED"

\* the page was reloaded after the signature step and loaded the completed
\* session
ReloadedCompleted ==
    /\ lastEvent.op = "reload"
    /\ lastEvent.before # Null
    /\ lastEvent.before.status = "COMPLETED"
    /\ currentTask # Null
    /\ currentTask.status = "COMPLETED"

\* C18: a COMPLETED session has its completion end-time set.
CompletedHasEndTime ==
    (currentTask # Null /\ currentTask.status = "COMPLETED") =>
        "endTime" \in DOMAIN currentTask

\* C19: once the session is COMPLETED no event changes its status, item
\* list, observed set or discrepancy list.
CompletedIsReadOnly ==
    (lastEvent.before # Null /\ lastEvent.before.status = "COMPLETED") =>
        /\ currentTask # Null
        /\ currentTask.status = "COMPLETED"
        /\ currentTask.items = lastEvent.before.items
        /\ currentTask.scannedImeis = lastEvent.before.scannedImeis
        /\ currentTask.discrepancies = lastEvent.before.discrepancies

\* the operator opened and left a view of the completed session
CompletedViewClosed ==
    /\ lastEvent.op = "close"
    /\ lastEvent.before # Null
    /\ lastEvent.before.status = "COMPLETED"
    /\ view = "DASHBOARD"

\* C20: with a COMPLETED session of an earlier day active, the dashboard
\* lets the operator start the new day's session, which then replaces it
\* with a fresh PENDING session.
NewDayStartReplacesCompleted ==
    /\ ( /\ currentTask # Null
         /\ currentTask.status = "COMPLETED"
         /\ currentTask.date # today
         /\ view = "DASHBOARD"
         /\ ~showConfirmModal ) => StartButtonRendered
    /\ ( /\ lastEvent.op \in {"prepare", "start"}
         /\ lastEvent.before # Null
         /\ lastEvent.before.status = "COMPLETED" ) =>
            /\ currentTask = getDailyTask(today)
            /\ loadTaskFromStorage(storage) = currentTask

\* C21: pressing start / resume on a session that is IN_PROGRESS goes to
\* scanning with no start-count prompt, and the prompt is on screen only for
\* a PENDING session.
ResumeSkipsPrompt ==
    /\ ( /\ lastEvent.op = "prepare"
         /\ lastEvent.before # Null
         /\ lastEvent.before.status = "IN_PROGRESS" ) =>
            (view = "SCANNER" /\ ~showConfirmModal)
    /\ showConfirmModal =>
          (currentTask # Null /\ currentTask.status = "PENDING")

ReasonOf(d) == IF "reason" \in DOMAIN d THEN d.reason ELSE ""

\* two lists name the same identifiers in the same order with the same
\* reason and autoResolved flag
SameAnnotations(a, b) ==
    /\ Len(a) = Len(b)
    /\ \A k \in 1..Len(a) :
          /\ b[k].imei = a[k].imei
          /\ b[k].autoResolved = a[k].autoResolved
          /\ ReasonOf(b[k]) = ReasonOf(a[k])

\* C22: going back keeps the scans and the annotations.  After going back
\* from reconciliation to scanning the observed set is as it was and the
\* list reconciliation shows when it is entered again, with no scan or
\* quantity change in between, carries the reasons and autoResolved flags of
\* the list that was on screen; after going back from signature to
\* reconciliation the list on screen carries those of the confirmed list.
BackKeepsAnnotations ==
    /\ lastEvent.op = "reconBack" =>
          /\ currentTask.scannedImeis = lastEvent.before.scannedImeis
          /\ SameAnnotations(lastEvent.list, InitialDiscrepancies(currentTask))
    /\ lastEvent.op = "signatureClose" =>
          /\ currentTask.scannedImeis = lastEvent.before.scannedImeis
          /\ view = "RECONCILIATION"
          /\ SameAnnotations(lastEvent.before.discrepancies, discrepancies)

\* C23: the store holds the whole session after every event.  With a store
\* that accepts writes, the stored record is at every instant the
\* serialisation of the session in memory (no record when there is no
\* session), so after a scan, a quantity set or a status transition the
\* store holds the session as of that event and a reload never finds a
\* partially applied event.
StoreHoldsSession ==
    /\ storage = IF currentTask = Null THEN NoRecord ELSE Stringify(currentTask)
    /\ loadTaskFromStorage(storage) = currentTask
    /\ (ScanOf(lastEvent) /\ ~lastEvent.dup) =>
          Has(loadTaskFromStorage(storage).scannedImeis, lastEvent.code)
    /\ lastEvent.op = "signed" =>
          loadTaskFromStorage(storage).status = "COMPLETED"

ScanStored ==
    /\ ScanOf(lastEvent)
    /\ ~lastEvent.dup
    /\ storage.kind = "json"
    /\ Has(loadTaskFromStorage(storage).scannedImeis, lastEvent.code)
    /\ ~Has(lastEvent.before.scannedImeis, lastEvent.code)

\* C24: every annotation is in the store when the operation is complete.
\* After a reason is chosen for an entry, and after the result of a dynamic
\* check is applied, the discrepancy list of the stored session carries the
\* reasons and autoResolved flags of the list on screen.
AnnotationsStored ==
    lastEvent.op \in {"reason", "dynamicCheckDone"} =>
        /\ storage.kind = "json"
        /\ SameAnnotations(discrepancies,
                           loadTaskFromStorage(storage).discrepancies)

\* C25: saving a session and loading it back gives the same expectation
\* list, the same observed set without duplicates and the same discrepancy
\* list.
RoundTrip ==
    currentTask # Null =>
        LET back == loadTaskFromStorage(
                        saveTaskToStorage(currentTask, NoRecord, FALSE)) IN
        /\ back # Null
        /\ back.items = currentTask.items
        /\ back.scannedImeis = currentTask.scannedImeis
        /\ Cardinality(Observed(back)) = Size(back.scannedImeis)
        /\ \A x \in Observed(currentTask) : Has(back.scannedImeis, x)
        /\ back.discrepancies = currentTask.discrepancies

ReloadedWithFindings ==
    /\ lastEvent.op = "reload"
    /\ currentTask # Null
    /\ Size(currentTask.scannedImeis) > 0
    /\ currentTask.discrepancies # <<>>
    /\ currentTask = lastEvent.before

\* C26: a failing store write does not block counting.  While the store
\* refuses writes, a scan still adds its identifier to the observed set, a
\* start still moves the session to IN_PROGRESS and a signature still
\* completes it, and the handlers of the next event see that session.
FailedWriteKeepsCounting ==
    storeFails =>
        /\ task = currentTask
        /\ (ScanOf(lastEvent) /\ ~lastEvent.dup) =>
              Has(currentTask.scannedImeis, lastEvent.code)
        /\ (QuantityOf(lastEvent)
                /\ Representative(lastEvent.before, lastEvent.code) # <<>>) =>
              (lastEvent.count > 0 <=>
                  Has(currentTask.scannedImeis,
                      Representative(lastEvent.before, lastEvent.code)[1]))
        /\ lastEvent.op = "start" =>
              currentTask.status = "IN_PROGRESS" /\ view = "SCANNER"
        /\ lastEvent.op = "signed" => currentTask.status = "COMPLETED"

CountedPastFailure ==
    /\ storeFails
    /\ errors = 2
    /\ ScanOf(lastEvent)
    /\ ~lastEvent.dup
    /\ Has(currentTask.scannedImeis, lastEvent.code)
    /\ storage.kind = "json"
    /\ ~Has(loadTaskFromStorage(storage).scannedImeis, lastEvent.code)

\* C27: after the first failed write the store is left alone.  A page
\* reports at most one failed store write, whatever events follow it.
FailureReportedOnce == errors <= 1

\* C28: nothing usable in the store means no session.  An App that mounts
\* on an empty store or on a record that cannot be parsed has no session and
\* shows the dashboard, and the next press of the start button creates the
\* PENDING session of the day with nothing observed.
NoRecordStartsFresh ==
    /\ lastEvent.op = "mount" =>
          /\ currentTask = Null
          /\ view = "DASHBOARD"
          /\ storage = NoRecord
    /\ (lastEvent.op = "prepare" /\ lastEvent.before = Null) =>
          /\ currentTask = getDailyTask(today)
          /\ currentTask.status = "PENDING"
          /\ Size(currentTask.scannedImeis) = 0
          /\ currentTask.discrepancies = <<>>

MountedOnCorruptRecord ==
    /\ lastEvent.op = "mount"
    /\ lastEvent.code = "corrupt"
    /\ currentTask = Null
    /\ ~showConfirmModal

\* the prices of the entries of a list that were not auto-resolved, in
\* absolute value when magnitude is set
Unsettled(list, kinds, magnitude) ==
    LET kept == Filter(list, LAMBDA d : d.type \in kinds /\ ~d.autoResolved) IN
    IF magnitude THEN SumAbsPrice(kept) ELSE SumPrice(kept)

\* C29: auto-resolved discrepancies are left out of the totals.  The
\* shortage amount, the overage amount and the difference amount of a session
\* are the sums of the prices of its shortage entries, of its overage
\* entries and of all its entries that have autoResolved = FALSE.
TotalsExcludeAutoResolved ==
    currentTask # Null =>
        /\ completedShortageAmount(currentTask)
              = Unsettled(currentTask.discrepancies, {"SHORTAGE"}, FALSE)
        /\ completedOverageAmount(currentTask)
              = Unsettled(currentTask.discrepancies, {"OVERAGE"}, FALSE)
        /\ completedDiffAmount(currentTask)
              = Unsettled(currentTask.discrepancies, {"SHORTAGE", "OVERAGE"}, TRUE)

\* C30: progress is expectation coverage.  The progress of a session is the
\* number of expected items whose identifier is observed over the number of
\* expected items, it lies between 0 and 1, the Scanner's percentage is that
\* ratio times 100, and a scan of an identifier that is not expected leaves
\* it as it was.
ProgressIsCoverage ==
    currentTask # Null =>
        LET p   == getProgressStats(currentTask)
            pct == progressPercent(currentTask)
            covered == {i \in 1..Len(currentTask.items) :
                           currentTask.items[i].imei \in Observed(currentTask)}
        IN  /\ p.current = Cardinality(covered)
            /\ p.total = Len(currentTask.items)
            /\ p.total > 0
            /\ 0 <= p.current /\ p.current <= p.total
            /\ pct.num * p.total = 100 * p.current * pct.den
            /\ (ScanOf(lastEvent) /\ ~HasItem(lastEvent.before, lastEvent.code)) =>
                  getProgressStats(currentTask) = getProgressStats(lastEvent.before)

UnexpectedScanWithProgress ==
    /\ ScanOf(lastEvent)
    /\ ~lastEvent.dup
    /\ ~HasItem(lastEvent.before, lastEvent.code)
    /\ Has(currentTask.scannedImeis, lastEvent.code)
    /\ getProgressStats(currentTask).current > 0
    /\ Size(currentTask.scannedImeis) > getProgressStats(currentTask).total

\* the position of the entry or item with identifier imei in a list
IndexOf(list, imei) == CHOOSE k \in 1..Len(list) : list[k].imei = imei

\* C31: the ledger query partitions the expectation list.  Every expected
\* item is in exactly one of the unscanned list (identifier not observed) and
\* the scanned list (identifier observed); in the unscanned list every SCAN
\* item comes before every QUANTITY item and items of one counting mode keep
\* the order of the expectation list.
LedgerQueryPartitions ==
    currentTask # Null =>
        LET its == currentTask.items
            u   == unscannedItems(currentTask)
            sc  == scannedItems(currentTask)
        IN  /\ Len(u) + Len(sc) = Len(its)
            /\ Range(u) \cup Range(sc) = Range(its)
            /\ Range(u) \cap Range(sc) = {}
            /\ \A k \in 1..Len(u) : u[k].imei \notin Observed(currentTask)
            /\ \A k \in 1..Len(sc) : sc[k].imei \in Observed(currentTask)
            /\ \A a, b \in 1..Len(u) :
                  a < b =>
                      /\ ~(u[a].countMethod = "QUANTITY" /\ u[b].countMethod = "SCAN")
                      /\ u[a].countMethod = u[b].countMethod =>
                            IndexOf(its, u[a].imei) < IndexOf(its, u[b].imei)

QuantityListedBeforeScan ==
    /\ view = "SCANNER"
    /\ task = currentTask
    /\ Len(task.items) = 2
    /\ task.items[1].countMethod = "QUANTITY"
    /\ task.items[2].countMethod = "SCAN"
    /\ Len(unscannedItems(task)) = 2
    /\ unscannedItems(task)[1] = task.items[2]

\* the reconciliation step has just been entered on a session without a
\* confirmed list
FreshList ==
    /\ lastEvent.op = "submitCount"
    /\ view = "RECONCILIATION"
    /\ currentTask.discrepancies = <<>>

\* C32: a freshly computed discrepancy list is ordered.  Every SHORTAGE comes
\* before every OVERAGE, the shortages are in the order of the expectation
\* list and the overages in the insertion order of the observed set.
FreshListOrdered ==
    FreshList =>
        \A a, b \in 1..Len(discrepancies) :
            a < b =>
                LET x == discrepancies[a]
                    y == discrepancies[b]
                IN  /\ ~(x.type = "OVERAGE" /\ y.type = "SHORTAGE")
                    /\ (x.type = "SHORTAGE" /\ y.type = "SHORTAGE") =>
                          IndexOf(currentTask.items, x.imei)
                              < IndexOf(currentTask.items, y.imei)
                    /\ (x.type = "OVERAGE" /\ y.type = "OVERAGE") =>
                          \E i, j \in 1..Size(currentTask.scannedImeis) :
                              /\ i < j
                              /\ ArrayFrom(currentTask.scannedImeis)[i] = x.imei
                              /\ ArrayFrom(currentTask.scannedImeis)[j] = y.imei

FreshListMixed ==
    /\ FreshList
    /\ Len(discrepancies) = 4
    /\ discrepancies[1].type = "SHORTAGE"
    /\ discrepancies[2].type = "SHORTAGE"
    /\ discrepancies[3].type = "OVERAGE"
    /\ discrepancies[4].type = "OVERAGE"

\* the catalog entries with identifier imei
CatalogEntries(imei) ==
    {i \in 0..(CatalogSize - 1) : Product(i).imei = imei}

\* C33: a catalog miss is not an error.  In a freshly computed list every
\* observed identifier outside the expectation list has its OVERAGE entry;
\* the entry carries the SKU, name and price of the catalog when the catalog
\* knows the identifier and UNKNOWN, Unlisted Item and 0 when it does not;
\* a SHORTAGE carries the SKU, name and price of the expected item.
CatalogMissFallsBack ==
    FreshList =>
        /\ \A c \in Observed(currentTask) \ Expected(currentTask) :
              \E k \in 1..Len(discrepancies) :
                  discrepancies[k].imei = c /\ discrepancies[k].type = "OVERAGE"
        /\ \A k \in 1..Len(discrepancies) :
              LET d == discrepancies[k] IN
              /\ d.type = "OVERAGE" =>
                    IF CatalogEntries(d.imei) = {}
                    THEN d.sku = "UNKNOWN" /\ d.name = "Unlisted Item" /\ d.price = 0
                    ELSE \E i \in CatalogEntries(d.imei) :
                            /\ d.sku = Product(i).sku
                            /\ d.name = Product(i).name
                            /\ d.price = Product(i).price
              /\ d.type = "SHORTAGE" =>
                    LET item == currentTask.items[IndexOf(currentTask.items, d.imei)]
                    IN  d.sku = item.sku /\ d.name = item.name /\ d.price = item.price

KnownAndUnknownOverage ==
    /\ FreshList
    /\ \E a, b, c \in 1..Len(discrepancies) :
          /\ discrepancies[a].type = "OVERAGE" /\ discrepancies[a].sku = "UNKNOWN"
          /\ discrepancies[b].type = "OVERAGE" /\ discrepancies[b].price > 0
          /\ discrepancies[c].type = "SHORTAGE"

\* C34: a confirmed list is not recomputed.  When reconciliation is entered
\* and the session holds a non-empty discrepancy list, the list under review
\* is that list with its reasons and autoResolved flags; when the session's
\* list is empty it is the result of the calculator.
ConfirmedListShortCircuits ==
    (lastEvent.op \in {"submitCount", "signatureClose"} /\ view = "RECONCILIATION") =>
        IF currentTask.discrepancies # <<>>
        THEN discrepancies = currentTask.discrepancies
        ELSE discrepancies = ComputeDiscrepancies(currentTask)

ReenteredWithConfirmedList ==
    /\ lastEvent.op = "submitCount"
    /\ view = "RECONCILIATION"
    /\ currentTask.discrepancies # <<>>
    /\ discrepancies = currentTask.discrepancies
    /\ discrepancies # ComputeDiscrepancies(currentTask)
    /\ \E k \in 1..Len(discrepancies) : ReasonOf(discrepancies[k]) # ""

\* an item without its manualCount
Uncounted(item) == [f \in DOMAIN item \ {"manualCount"} |-> item[f]]

\* the manualCount of an item: <<>> or <<n>>
CountOf(item) ==
    IF "manualCount" \in DOMAIN item THEN <<item.manualCount>> ELSE <<>>

\* C35: the expectation list is immutable but for manualCount.  An event on
\* an existing session leaves the length and order of its items and every
\* item's identifier, SKU, name, price and counting mode as they were, and
\* changes an item's manualCount only when it is a quantity set.
ItemsFrozenButCount ==
    (lastEvent.before # Null /\ currentTask # Null) =>
        /\ Len(currentTask.items) = Len(lastEvent.before.items)
        /\ \A k \in 1..Len(currentTask.items) :
              /\ Uncounted(currentTask.items[k]) = Uncounted(lastEvent.before.items[k])
              /\ CountOf(currentTask.items[k]) # CountOf(lastEvent.before.items[k])
                    => QuantityOf(lastEvent)

CountChangedByQuantitySet ==
    /\ QuantityOf(lastEvent)
    /\ \E k \in 1..Len(currentTask.items) :
          /\ CountOf(currentTask.items[k]) = <<lastEvent.count>>
          /\ CountOf(lastEvent.before.items[k]) # <<lastEvent.count>>
          /\ Uncounted(currentTask.items[k]) = Uncounted(lastEvent.before.items[k])
    /\ \E k \in 1..Len(currentTask.items) :
          currentTask.items[k] = lastEvent.before.items[k]

\* C36: a refused submit points at the first blocking entry.  When the
\* submit of the reconciliation step is refused, the entry it scrolls to is
\* the first of the list with autoResolved = FALSE and no reason, and the
\* session and the list are as they were.
RefusalPointsAtFirstBlocking ==
    (lastEvent.op = "submit" /\ view = "RECONCILIATION") =>
        /\ lastEvent.code # ""
        /\ \E k \in 1..Len(lastEvent.list) :
              /\ lastEvent.list[k].imei = lastEvent.code
              /\ Blocking(lastEvent.list[k])
              /\ \A j \in 1..(k - 1) : ~Blocking(lastEvent.list[j])
        /\ currentTask = lastEvent.before
        /\ discrepancies = lastEvent.list

RefusedWithTwoBlocking ==
    /\ lastEvent.op = "submit"
    /\ view = "RECONCILIATION"
    /\ Len(discrepancies) = 2
    /\ Blocking(discrepancies[1])
    /\ Blocking(discrepancies[2])
    /\ lastEvent.code = discrepancies[1].imei

\* C37: a confirmed start makes the scanning step available.  After the
\* start-count prompt is confirmed on a PENDING session the status is
\* IN_PROGRESS and the Scanner is on screen with the session, and whenever
\* the view is SCANNER, RECONCILIATION or SIGNATURE with a session the
\* component of that view is mounted, so that the steps towards COMPLETED can
\* be taken.
StartedSessionCanBeCounted ==
    /\ (lastEvent.op = "start" /\ lastEvent.before # Null
            /\ lastEvent.before.status = "PENDING") =>
          /\ currentTask.status = "IN_PROGRESS"
          /\ view = "SCANNER"
          /\ ScannerMounted
    /\ \A v \in {"SCANNER", "RECONCILIATION", "SIGNATURE"} :
          (view = v /\ task # Null) => Mounted(v)

\* C38: the session never completes with an unresolved discrepancy.  A
\* COMPLETED session has no entry with autoResolved = FALSE and no reason;
\* the signature step is only on screen with such a list, which the submit
\* of the reconciliation step stored; and the status becomes COMPLETED only
\* by the signature on an IN_PROGRESS session.
NeverCompletesUnresolved ==
    /\ (currentTask # Null /\ currentTask.status = "COMPLETED") =>
          ~SomeBlocking(currentTask.discrepancies)
    /\ view = "SIGNATURE" =>
          /\ currentTask # Null
          /\ ~SomeBlocking(currentTask.discrepancies)
    /\ lastEvent.op = "signed" =>
          /\ lastEvent.before.status = "IN_PROGRESS"
          /\ currentTask.discrepancies = lastEvent.before.discrepancies
    /\ (currentTask # Null /\ currentTask.status = "COMPLETED"
            /\ lastEvent.before # Null /\ lastEvent.before.status # "COMPLETED") =>
          lastEvent.op = "signed"

SignedWithManualReason ==
    /\ lastEvent.op = "signed"
    /\ currentTask.status = "COMPLETED"
    /\ \E k \in 1..Len(currentTask.discrepancies) :
          /\ ~currentTask.discrepancies[k].autoResolved
          /\ ReasonOf(currentTask.discrepancies[k]) # ""
    /\ \E k \in 1..Len(currentTask.discrepancies) :
          currentTask.discrepancies[k].autoResolved

\* C39: a COMPLETED session's list covers the ledger.  In a COMPLETED
\* session every expected item whose identifier is not observed has a
\* SHORTAGE entry in the session's list and every observed identifier outside
\* the expectation list has an OVERAGE entry.
CompletedListCoversLedger ==
    (currentTask # Null /\ currentTask.status = "COMPLETED") =>
        /\ \A c \in Expected(currentTask) \ Observed(currentTask) :
              \E k \in EntriesFor(currentTask.discrepancies, c) :
                  currentTask.discrepancies[k].type = "SHORTAGE"
        /\ \A c \in Observed(currentTask) \ Expected(currentTask) :
              \E k \in EntriesFor(currentTask.discrepancies, c) :
                  currentTask.discrepancies[k].type = "OVERAGE"

\* the place of a status in PENDING -> IN_PROGRESS -> COMPLETED
StatusRank(status) ==
    IF status = "PENDING" THEN 0 ELSE IF status = "IN_PROGRESS" THEN 1 ELSE 2

\* C40: counting happens only in progress.  While the view is SCANNER,
\* RECONCILIATION or SIGNATURE the session is IN_PROGRESS; an event changes
\* the observed set or a manual count only on an IN_PROGRESS session, so a
\* PENDING session keeps its observed set; and no event moves the status
\* backwards.
CountingOnlyInProgress ==
    /\ view \in {"SCANNER", "RECONCILIATION", "SIGNATURE"} =>
          currentTask # Null /\ currentTask.status = "IN_PROGRESS"
    /\ (lastEvent.before # Null /\ currentTask # Null) =>
          /\ (currentTask.scannedImeis # lastEvent.before.scannedImeis
                 \/ currentTask.items # lastEvent.before.items) =>
                lastEvent.before.status = "IN_PROGRESS"
          /\ lastEvent.before.status = "PENDING" =>
                currentTask.scannedImeis = lastEvent.before.scannedImeis
          /\ StatusRank(lastEvent.before.status) <= StatusRank(currentTask.status)

SignedAfterCounting ==
    /\ lastEvent.op = "signed"
    /\ lastEvent.before.status = "IN_PROGRESS"
    /\ currentTask.status = "COMPLETED"
    /\ Size(currentTask.scannedImeis) > 0
    /\ \E k \in 1..Len(currentTask.items) : CountOf(currentTask.items[k]) # <<>>
    /\ view = "DASHBOARD"

====
